---- MODULE Spec2Model ----
(***************************************************************************)
(* A model of @figliolia/task-queue: Bucket (an insertion-ordered map     *)
(* with auto-incrementing IDs), PriorityQueue (one Bucket per priority     *)
(* level) and TaskQueue (the scheduler with its cooperative drain loops,   *)
(* its deferred-task registry and its cancel functions).                   *)
(*                                                                         *)
(* The host is modelled by its event loop: a pending timer may fire at any *)
(* time, and a drain loop suspended on an `await` resumes in a step of its *)
(* own, so that calls of the public API interleave with the loops exactly  *)
(* at the suspension points of the code.                                   *)
(***************************************************************************)
EXTENDS Integers, Sequences, FiniteSets, TLC

\* ------------------------------------------------------------------ bounds
\* Number of registerTask calls that are accepted in one behaviour.
MaxTasks == 3
\* Number of deferTask calls made by the user in one behaviour.
MaxDeferred == 2
\* Number of drain loops the public API starts in one behaviour.
MaxRuns == 2
\* Number of completion callbacks passed to the execute functions.
MaxCallbacks == 2
\* Largest `priorities` the constructor is called with.
MaxPriorities == 2
\* Number of times the host reports contention in one behaviour.
MaxYields == 1
\* The non-zero task separation (milliseconds) the model uses.
Separation == 5

VARIABLES
    config,         \* the constructor's options, and whether the host is a browser
    tasks,          \* TaskQueue.tasks: the PriorityQueue
    subscriptions,  \* TaskQueue.subscriptions: Bucket of completion work
    internals,      \* TaskQueue.internals: Bucket of the active run's cancelFN
    deferredTasks,  \* TaskQueue.deferredTasks: Bucket of timer handles
    timers,         \* the host's pending timers (setTimeout not yet fired or cleared)
    nextTimer,      \* the host's next timer handle
    loops,          \* the live `iterate` coroutines of cancellableExecution
    nextLoop,       \* number of cancellableExecution calls so far
    runs,           \* number of drain loops the public API has started
    yields,         \* number of times the host has reported contention
    reg,            \* the registerTask calls accepted so far, in call order
    defs,           \* the user's deferTask calls so far, in call order
    nextCb,         \* number of completion callbacks passed so far
    handed,         \* the cancel functions of runs returned to the caller
    invoked,        \* the prioritized tasks invoked so far, in order, with the loop's queue
    fired,          \* the user's deferred tasks invoked so far, in order
    completed,      \* the completion callbacks invoked so far, in order
    raised          \* what the latest call of the public API raised

vars == <<config, tasks, subscriptions, internals, deferredTasks, timers,
          nextTimer, loops, nextLoop, runs, yields, reg, defs, nextCb,
          handed, invoked, fired, completed, raised>>

\* ------------------------------------------------------------------ Bucket
\* A Bucket is a Map<string, T> (insertion ordered) and an AutoIncrementingID.
NewBucket == [bucket |-> <<>>, IDs |-> 0]

BucketLength(b) == Len(b.bucket)

BucketIsEmpty(b) == Len(b.bucket) = 0

\* The ID the next enqueue returns.
BucketNextID(b) == b.IDs

BucketEnqueue(b, item) ==
    [bucket |-> Append(b.bucket, [ID |-> b.IDs, item |-> item]),
     IDs |-> b.IDs + 1]

\* The entry dequeue and peek find first; only used on a non-empty bucket.
BucketFirst(b) == b.bucket[1]

\* A dequeue that returns the first entry and removes the last.
BucketDequeue_DropsLast(b) ==
    IF Len(b.bucket) = 0 THEN b
    ELSE [b EXCEPT !.bucket = SubSeq(b.bucket, 1, Len(b.bucket) - 1)]

BucketDequeue(b) ==
    IF Len(b.bucket) = 0 THEN b ELSE [b EXCEPT !.bucket = Tail(b.bucket)]

BucketHas(b, ID) == \E i \in 1..Len(b.bucket) : b.bucket[i].ID = ID

\* A delete that fills the hole with the last entry.
BucketDelete_SwapRemove(b, ID) ==
    LET n == Len(b.bucket)
        at == {i \in 1..n : b.bucket[i].ID = ID}
    IN  IF at = {} THEN b
        ELSE [b EXCEPT !.bucket =
                 [i \in 1..(n - 1) |->
                     IF i \in at THEN b.bucket[n] ELSE b.bucket[i]]]

BucketDelete(b, ID) ==
    [b EXCEPT !.bucket = SelectSeq(b.bucket, LAMBDA e : e.ID # ID)]

\* A clear that also starts the IDs again.
BucketClear_ResetIDs(b) == [bucket |-> <<>>, IDs |-> 0]

BucketClear(b) == [b EXCEPT !.bucket = <<>>]

BucketItems(b) == {b.bucket[i].item : i \in 1..Len(b.bucket)}

\* ----------------------------------------------------------- PriorityQueue
\* buckets[i + 1] is the Bucket of level i (TLA+ sequences start at 1).
NewPriorityQueue(n) == [max |-> n - 1, buckets |-> [i \in 1..n |-> NewBucket]]

\* A guard that lets the first level above the range through.
GuardThrows_OffByOne(pq, priority) == priority > pq.max + 1

\* guard throws exactly when this holds.
GuardThrows(pq, priority) == priority > pq.max

\* this.buckets[priority] is undefined: the access that follows throws a TypeError.
NoBucket(pq, priority) == priority < 0 \/ priority > Len(pq.buckets) - 1

PQEnqueue(pq, item, priority) ==
    [pq EXCEPT !.buckets[priority + 1] = BucketEnqueue(@, item)]

PQLength(pq) ==
    LET RECURSIVE Sum(_)
        Sum(i) == IF i = 0 THEN 0 ELSE BucketLength(pq.buckets[i]) + Sum(i - 1)
    IN  Sum(Len(pq.buckets))

PQIsEmpty(pq) == \A i \in 1..Len(pq.buckets) : BucketLength(pq.buckets[i]) = 0

\* A dequeue that scans the buckets from the lowest priority.
PQFirstLevel_FromLast(pq) ==
    CHOOSE i \in 1..Len(pq.buckets) :
        /\ BucketLength(pq.buckets[i]) # 0
        /\ \A j \in (i + 1)..Len(pq.buckets) : BucketLength(pq.buckets[j]) = 0

\* The index of the bucket dequeue and peek take from: the first with a length.
PQFirstLevel(pq) ==
    CHOOSE i \in 1..Len(pq.buckets) :
        /\ BucketLength(pq.buckets[i]) # 0
        /\ \A j \in 1..(i - 1) : BucketLength(pq.buckets[j]) = 0

PQFirst(pq) == BucketFirst(pq.buckets[PQFirstLevel(pq)])

PQDequeue(pq) ==
    IF PQIsEmpty(pq) THEN pq
    ELSE [pq EXCEPT !.buckets[PQFirstLevel(pq)] = BucketDequeue(@)]

\* A delete that looks for the ID at every level.
PQDelete_IgnoresLevel(pq, ID, priority) ==
    [pq EXCEPT !.buckets = [i \in 1..Len(pq.buckets) |-> BucketDelete(pq.buckets[i], ID)]]

PQDelete(pq, ID, priority) ==
    [pq EXCEPT !.buckets[priority + 1] = BucketDelete(@, ID)]

PQClear(pq) ==
    [pq EXCEPT !.buckets = [i \in 1..Len(pq.buckets) |-> BucketClear(pq.buckets[i])]]

PQItems(pq) == UNION {BucketItems(pq.buckets[i]) : i \in 1..Len(pq.buckets)}

\* --------------------------------------------------------------- TaskQueue
\* The functions the buckets hold. A task is named by the index of its
\* registerTask call, a completion callback by the index of the call it came with.
None == [kind |-> "none", n |-> 0]

TaskItem(n) == [kind |-> "task", n |-> n]

OnComplete(n) == [kind |-> "onComplete", n |-> n]

RemoveJob(jobID) == [kind |-> "removeJob", n |-> jobID]

\* The queues a drain loop can be given.
AllTasks == [kind |-> "tasks", level |-> 0]

OneLevel(level) == [kind |-> "bucket", level |-> level]

Subscriptions == [kind |-> "subscriptions", level |-> 0]

\* The cancel functions the execute functions and getCancelFN return.
\* `cancelFN` is the closure of cancellableExecution over its cancelToken;
\* `cancelRun` is executeAll's wrapper, which also calls removeJob.
CancelFN(l) == [fn |-> "cancelFN", loop |-> l, job |-> 0]

CancelRun(l, jobID) == [fn |-> "cancelRun", loop |-> l, job |-> jobID]

\* The part of the state the methods of TaskQueue read and write, as one record,
\* so that a method is an operator from state to state; `ret` is its return
\* value and `raised` the error it raised to its caller.
S ==
    [tasks |-> tasks, subscriptions |-> subscriptions, internals |-> internals,
     deferredTasks |-> deferredTasks, timers |-> timers, nextTimer |-> nextTimer,
     loops |-> loops, nextLoop |-> nextLoop, invoked |-> invoked,
     completed |-> completed, ret |-> None, raised |-> "none"]

Commit(s) ==
    /\ tasks' = s.tasks
    /\ subscriptions' = s.subscriptions
    /\ internals' = s.internals
    /\ deferredTasks' = s.deferredTasks
    /\ timers' = s.timers
    /\ nextTimer' = s.nextTimer
    /\ loops' = s.loops
    /\ nextLoop' = s.nextLoop
    /\ invoked' = s.invoked
    /\ completed' = s.completed
    /\ raised' = s.raised

\* The same for a step of the host, which is no call of the public API.
CommitHost(s) == Commit([s EXCEPT !.raised = raised])

\* Queue<T> of types.ts, implemented by PriorityQueue and by Bucket.
QueueIsEmpty(s, q) ==
    CASE q.kind = "tasks" -> PQIsEmpty(s.tasks)
      [] q.kind = "bucket" -> BucketIsEmpty(s.tasks.buckets[q.level + 1])
      [] OTHER -> BucketIsEmpty(s.subscriptions)

QueueFirst(s, q) ==
    CASE q.kind = "tasks" -> PQFirst(s.tasks).item
      [] q.kind = "bucket" -> BucketFirst(s.tasks.buckets[q.level + 1]).item
      [] OTHER -> BucketFirst(s.subscriptions).item

QueueDequeue(s, q) ==
    CASE q.kind = "tasks" -> [s EXCEPT !.tasks = PQDequeue(@)]
      [] q.kind = "bucket" ->
            [s EXCEPT !.tasks.buckets[q.level + 1] = BucketDequeue(@)]
      [] OTHER -> [s EXCEPT !.subscriptions = BucketDequeue(@)]

\* The host's setTimeout: a pending timer with the callback it will run.
\* kind "task": a deferTask callback around the user's task `ref`;
\* kind "signal": the deferTask callback that resolves loop `ref`'s promise;
\* kind "yield": yieldMainThread's resolve for loop `ref`; nobody keeps its handle.
Timer(h, kind, ref, ID) == [h |-> h, kind |-> kind, ref |-> ref, ID |-> ID]

NoHandle == -1

\* The host takes a timer off its list when it runs its callback.
Fired(s, t) == [s EXCEPT !.timers = @ \ {t}]

clearTimeout(s, h) == [s EXCEPT !.timers = {t \in @ : t.h # h}]

\* deferTask: setTimeout, then the timer is enqueued under a fresh ID.
deferTask(s, kind, ref) ==
    [s EXCEPT
        !.timers = @ \cup {Timer(s.nextTimer, kind, ref, BucketNextID(s.deferredTasks))},
        !.nextTimer = @ + 1,
        !.deferredTasks = BucketEnqueue(@, s.nextTimer)]

\* A generator that yields `true` whatever the task separation.
generator_NoSeparation(s, l) ==
    IF QueueIsEmpty(s, s.loops[l].queue) THEN [s EXCEPT !.loops[l].at = "exit"]
    ELSE [s EXCEPT !.loops[l].at = "signal"]

\* One call of next() on the generator of loop l: the emptiness test, then
\* either the end of the sequence, `yield true`, or a promise behind deferTask.
generator(s, l) ==
    IF QueueIsEmpty(s, s.loops[l].queue) THEN [s EXCEPT !.loops[l].at = "exit"]
    ELSE IF s.loops[l].taskSeparation = 0 THEN [s EXCEPT !.loops[l].at = "signal"]
    ELSE deferTask([s EXCEPT !.loops[l].at = "timer"], "signal", l)

\* What calling a dequeued function does.
Invoke(s, l, item) ==
    CASE item.kind = "task" ->
            [s EXCEPT !.invoked = Append(@, [task |-> item.n,
                                             queue |-> s.loops[l].queue.kind])]
      [] item.kind = "onComplete" -> [s EXCEPT !.completed = Append(@, item.n)]
      [] item.kind = "removeJob" -> [s EXCEPT !.internals = BucketDelete(@, item.n)]
      [] OTHER -> s

DropLoop(s, l) ==
    [s EXCEPT !.loops = [k \in (DOMAIN s.loops) \ {l} |-> s.loops[k]]]

\* isInputPending: the host's answer in a browser, false elsewhere.
isInputPending(pending) == config.browser /\ pending

\* A loop body that never reads its cancelToken.
iterate_IgnoresCancel(s, l, pending, throws) ==
    IF isInputPending(pending) THEN
        [s EXCEPT !.timers = @ \cup {Timer(NoHandle, "yield", l, 0)},
                  !.loops[l].at = "yield"]
    ELSE IF QueueIsEmpty(s, s.loops[l].queue) THEN generator(s, l)
    ELSE LET item == QueueFirst(s, s.loops[l].queue)
             s1 == Invoke(QueueDequeue(s, s.loops[l].queue), l, item)
         IN  IF throws /\ item.kind \in {"task", "onComplete"}
             THEN DropLoop(s1, l)
             ELSE generator(s1, l)

\* The body of `for await` in iterate, entered with proceed = true, up to the
\* next suspension: the cancel test, the host's contention test, one dequeue
\* and call, and the generator's next step. `throws` says whether the
\* caller's function that is called (a task, a completion callback) raises:
\* that rejects iterate's promise, which nobody handles, and the loop is gone.
iterate(s, l, pending, throws) ==
    IF s.loops[l].cancelToken THEN [s EXCEPT !.loops[l].at = "exit"]
    ELSE IF isInputPending(pending) THEN
        [s EXCEPT !.timers = @ \cup {Timer(NoHandle, "yield", l, 0)},
                  !.loops[l].at = "yield"]
    ELSE IF QueueIsEmpty(s, s.loops[l].queue) THEN generator(s, l)
    ELSE LET item == QueueFirst(s, s.loops[l].queue)
             s1 == Invoke(QueueDequeue(s, s.loops[l].queue), l, item)
         IN  IF throws /\ item.kind \in {"task", "onComplete"}
             THEN DropLoop(s1, l)
             ELSE generator(s1, l)

\* cancellableExecution: a new loop with its own cancelToken, run up to its
\* first suspension (`void iterate()`).
cancellableExecution(s, queue, taskSeparation) ==
    LET l == s.nextLoop
        lp == [queue |-> queue, taskSeparation |-> taskSeparation,
               cancelToken |-> FALSE, at |-> "start"]
        s1 == [s EXCEPT !.loops = [k \in (DOMAIN s.loops) \cup {l} |->
                                      IF k = l THEN lp ELSE s.loops[k]],
                        !.nextLoop = @ + 1]
    IN  [generator(s1, l) EXCEPT !.ret = CancelFN(l)]

\* The code after the loop of iterate: the subscriptions get a run of their own.
finish(s, l) ==
    IF BucketLength(s.subscriptions) # 0
    THEN cancellableExecution(DropLoop(s, l), Subscriptions, 0)
    ELSE DropLoop(s, l)

getCancelFN(s) ==
    IF BucketIsEmpty(s.internals) THEN [s EXCEPT !.ret = None]
    ELSE [s EXCEPT !.ret = CancelFN(BucketFirst(s.internals).item)]

executeAll(s, onComplete, taskSeparation) ==
    LET s1 == IF onComplete # None
              THEN [s EXCEPT !.subscriptions = BucketEnqueue(@, onComplete)]
              ELSE s
        s2 == cancellableExecution(s1, AllTasks, taskSeparation)
        jobID == BucketNextID(s2.internals)
    IN  IF ~BucketIsEmpty(s1.internals) THEN getCancelFN(s1)
        ELSE [s2 EXCEPT !.internals = BucketEnqueue(@, s1.nextLoop),
                        !.subscriptions = BucketEnqueue(@, RemoveJob(jobID)),
                        !.ret = CancelRun(s1.nextLoop, jobID)]

\* executeTasksWithPriority. getBucket's guard raises for a level above max.
\* Level -1 passes the guard and has no bucket: the generator's first step
\* raises inside iterate, so no loop is left and the caller still gets a
\* cancel function.
executeTasksWithPriority(s, priority, taskSeparation, onComplete) ==
    LET s1 == IF onComplete # None
              THEN [s EXCEPT !.subscriptions = BucketEnqueue(@, onComplete)]
              ELSE s
    IN  IF ~BucketIsEmpty(s1.internals) THEN getCancelFN(s1)
        ELSE IF GuardThrows(s1.tasks, priority - 1)
        THEN [s1 EXCEPT !.raised = "OutOfRange"]
        ELSE IF NoBucket(s1.tasks, priority - 1)
        THEN [s1 EXCEPT !.nextLoop = @ + 1, !.ret = CancelFN(s1.nextLoop)]
        ELSE cancellableExecution(s1, OneLevel(priority - 1), taskSeparation)

\* registerTask: enqueue at level priority - 1 (its guard raises above max,
\* and below 0 this.buckets[priority] is undefined), then the auto-run.
registerTask(s, task, priority) ==
    LET s1 == [s EXCEPT !.tasks = PQEnqueue(@, task, priority - 1)]
    IN  IF GuardThrows(s.tasks, priority - 1) THEN [s EXCEPT !.raised = "OutOfRange"]
        ELSE IF NoBucket(s.tasks, priority - 1) THEN [s EXCEPT !.raised = "TypeError"]
        ELSE IF config.autoRun /\ BucketIsEmpty(s1.internals)
        THEN executeAll(s1, None, config.taskSeparation)
        ELSE s1

\* A clear that empties the registry and leaves the timers with the host.
clearDeferredTasks_NoCancel(s) == [s EXCEPT !.deferredTasks = BucketClear(@)]

clearDeferredTasks(s) ==
    [s EXCEPT !.timers = {t \in @ : t.h \notin BucketItems(s.deferredTasks)},
              !.deferredTasks = BucketClear(@)]

\* A clear that leaves the priority queue alone.
clearPendingTasks_KeepsTasks(s) == clearDeferredTasks(s)

clearPendingTasks(s) == clearDeferredTasks([s EXCEPT !.tasks = PQClear(@)])

\* The callback deferTask hands to setTimeout, for the user's task d:
\* `void task()` and then, unless that raised, the delete.
deferredCallback(s, t, throws) ==
    IF throws THEN s ELSE [s EXCEPT !.deferredTasks = BucketDelete(@, t.ID)]

\* A cancel that forgets the entry and leaves the timer with the host.
cancelDeferred_NoClear(s, d) == [s EXCEPT !.deferredTasks = BucketDelete(@, d.ID)]

\* The cancel function deferTask returns.
cancelDeferred(s, d) ==
    [clearTimeout(s, d.timer) EXCEPT !.deferredTasks = BucketDelete(@, d.ID)]

\* A cancel whose token every live loop reads.
cancelExecution_AllLoops(s, c) ==
    LET s1 == [s EXCEPT !.loops = [k \in DOMAIN s.loops |->
                                      [s.loops[k] EXCEPT !.cancelToken = TRUE]]]
    IN  IF c.fn = "cancelRun"
        THEN [s1 EXCEPT !.internals = BucketDelete(@, c.job)]
        ELSE s1

\* The cancel functions of runs: cancelToken = true, and for executeAll's
\* wrapper removeJob as well. A loop that is gone reads its token no more.
cancelExecution(s, c) ==
    LET s1 == IF c.loop \in DOMAIN s.loops
              THEN [s EXCEPT !.loops[c.loop].cancelToken = TRUE]
              ELSE s
    IN  IF c.fn = "cancelRun"
        THEN [s1 EXCEPT !.internals = BucketDelete(@, c.job)]
        ELSE s1

\* ----------------------------------------------------------------- actions
\* new TaskQueue(config): the fields of the instance after construction.
Configs ==
    [priorities : 1..MaxPriorities, autoRun : BOOLEAN,
     taskSeparation : {0, Separation}, browser : BOOLEAN]

NoLoops == [k \in {} |-> 0]

InitWith(configs) ==
    /\ config \in configs
    /\ tasks = NewPriorityQueue(config.priorities)
    /\ subscriptions = NewBucket
    /\ internals = NewBucket
    /\ deferredTasks = NewBucket
    /\ timers = {}
    /\ nextTimer = 0
    /\ loops = NoLoops
    /\ nextLoop = 0
    /\ runs = 0
    /\ yields = 0
    /\ reg = <<>>
    /\ defs = <<>>
    /\ nextCb = 0
    /\ handed = {}
    /\ invoked = <<>>
    /\ fired = <<>>
    /\ completed = <<>>
    /\ raised = "none"

\* The instances of the main specification: explicit runs on a host that is
\* no browser, with and without task separation.
Init ==
    InitWith({c \in Configs : c.priorities = MaxPriorities /\ ~c.autoRun /\ ~c.browser})

\* The priorities a caller passes: every level, and one beyond either end.
Priorities == 0..(config.priorities + 1)

\* Whether a call of executeAll in state s starts a loop.
Idle(s) == BucketIsEmpty(s.internals)

\* registerTask(task, priority). An accepted task is the next of `reg`. With
\* autoRun the caller gets the run's cancel function from getCancelFN.
RegisterTask(priority) ==
    LET s == registerTask(S, TaskItem(Len(reg) + 1), priority)
        accepted == s.raised = "none"
        starts == accepted /\ config.autoRun /\ Idle(S)
    IN  /\ accepted => Len(reg) < MaxTasks
        /\ starts => runs < MaxRuns
        /\ Commit(s)
        /\ reg' = IF accepted
                  THEN Append(reg, [level |-> priority - 1,
                                    ID |-> BucketNextID(tasks.buckets[priority])])
                  ELSE reg
        /\ runs' = IF starts THEN runs + 1 ELSE runs
        /\ handed' = IF starts THEN handed \cup {getCancelFN(s).ret} ELSE handed
        /\ UNCHANGED <<config, yields, defs, nextCb, fired>>

\* The cancel function registerTask returned for task n.
CancelTask(n) ==
    /\ Commit([S EXCEPT !.tasks = PQDelete(@, reg[n].ID, reg[n].level)])
    /\ UNCHANGED <<config, runs, yields, reg, defs, nextCb, handed, fired>>

\* deferTask(task, delay) by the caller: task d is the next of `defs`.
DeferTask ==
    /\ Len(defs) < MaxDeferred
    /\ Commit(deferTask(S, "task", Len(defs) + 1))
    /\ defs' = Append(defs, [timer |-> nextTimer,
                             ID |-> BucketNextID(deferredTasks),
                             cancelled |-> FALSE, cleared |-> FALSE])
    /\ UNCHANGED <<config, runs, yields, reg, nextCb, handed, fired>>

\* The cancel function deferTask returned for the caller's deferred task d.
CancelDeferred(d) ==
    /\ Commit(cancelDeferred(S, defs[d]))
    /\ defs' = [defs EXCEPT ![d].cancelled = TRUE]
    /\ UNCHANGED <<config, runs, yields, reg, nextCb, handed, fired>>

\* executeAll(onComplete?, taskSeparation?). The caller keeps what it returns,
\* and the active run's cancelFN, which getCancelFN gives away.
ExecuteAll(withCallback, taskSeparation) ==
    /\ withCallback => nextCb < MaxCallbacks
    /\ Idle(S) => runs < MaxRuns
    /\ LET onComplete == IF withCallback THEN OnComplete(nextCb + 1) ELSE None
           s == executeAll(S, onComplete, taskSeparation)
       IN  /\ Commit(s)
           /\ handed' = handed \cup {s.ret, getCancelFN(s).ret}
    /\ nextCb' = IF withCallback THEN nextCb + 1 ELSE nextCb
    /\ runs' = IF Idle(S) THEN runs + 1 ELSE runs
    /\ UNCHANGED <<config, yields, reg, defs, fired>>

\* executeTasksWithPriority(priority, taskSeparation, onComplete?)
ExecuteTasksWithPriority(priority, taskSeparation, withCallback) ==
    LET onComplete == IF withCallback THEN OnComplete(nextCb + 1) ELSE None
        s == executeTasksWithPriority(S, priority, taskSeparation, onComplete)
        starts == Idle(S) /\ s.raised = "none"
    IN  /\ withCallback => nextCb < MaxCallbacks
        /\ starts => runs < MaxRuns
        /\ Commit(s)
        /\ handed' = IF s.raised = "none" THEN handed \cup {s.ret} ELSE handed
        /\ nextCb' = IF withCallback THEN nextCb + 1 ELSE nextCb
        /\ runs' = IF starts THEN runs + 1 ELSE runs
        /\ UNCHANGED <<config, yields, reg, defs, fired>>

\* A cancel function of a run, called by whoever holds it.
CancelExecution(c) ==
    /\ Commit(cancelExecution(S, c))
    /\ UNCHANGED <<config, runs, yields, reg, defs, nextCb, handed, fired>>

\* The caller's deferred tasks whose timer is pending.
Pending(d) == \E t \in timers : t.h = defs[d].timer

ClearPendingTasks ==
    /\ Commit(clearPendingTasks(S))
    /\ defs' = [d \in DOMAIN defs |->
                   IF Pending(d) THEN [defs[d] EXCEPT !.cleared = TRUE] ELSE defs[d]]
    /\ UNCHANGED <<config, runs, yields, reg, nextCb, handed, fired>>

ClearDeferredTasks ==
    /\ Commit(clearDeferredTasks(S))
    /\ defs' = [d \in DOMAIN defs |->
                   IF Pending(d) THEN [defs[d] EXCEPT !.cleared = TRUE] ELSE defs[d]]
    /\ UNCHANGED <<config, runs, yields, reg, nextCb, handed, fired>>

\* The host reports contention only in a browser, and MaxYields times.
Contention == IF config.browser /\ yields < MaxYields THEN BOOLEAN ELSE {FALSE}

\* Whether this entry of loop l's body reaches the contention test and yields.
Yields(l, pending) == isInputPending(pending) /\ ~loops[l].cancelToken

\* A loop suspended on `yield true` resumes (a microtask).
Resume(l, pending, throws) ==
    /\ loops[l].at = "signal"
    /\ CommitHost(iterate(S, l, pending, throws))
    /\ yields' = IF Yields(l, pending) THEN yields + 1 ELSE yields
    /\ UNCHANGED <<config, runs, reg, defs, nextCb, handed, fired>>

\* A loop that left `for await` runs the code after it (a microtask).
Finish(l) ==
    /\ loops[l].at = "exit"
    /\ CommitHost(finish(S, l))
    /\ UNCHANGED <<config, runs, yields, reg, defs, nextCb, handed, fired>>

\* The timer of the caller's deferred task fires.
FireDeferred(t, throws) ==
    /\ t.kind = "task"
    /\ CommitHost(deferredCallback(Fired(S, t), t, throws))
    /\ fired' = Append(fired, t.ref)
    /\ UNCHANGED <<config, runs, yields, reg, defs, nextCb, handed>>

\* The timer behind a loop's promise fires: resolve(true), the delete, and
\* then the loop's body with proceed = true.
FireSignal(t, pending, throws) ==
    /\ t.kind = "signal"
    /\ CommitHost(iterate(deferredCallback(Fired(S, t), t, FALSE),
                          t.ref, pending, throws))
    /\ yields' = IF Yields(t.ref, pending) THEN yields + 1 ELSE yields
    /\ UNCHANGED <<config, runs, reg, defs, nextCb, handed, fired>>

\* yieldMainThread's timer fires: `continue`, the generator's next step.
FireYield(t) ==
    /\ t.kind = "yield"
    /\ CommitHost(generator(Fired(S, t), t.ref))
    /\ UNCHANGED <<config, runs, yields, reg, defs, nextCb, handed, fired>>

\* The calls of the public API that raise nothing.
Calls ==
    \/ \E p \in 1..config.priorities : RegisterTask(p)
    \/ \E n \in 1..Len(reg) : CancelTask(n)
    \/ \E cb \in BOOLEAN : ExecuteAll(cb, config.taskSeparation)
    \/ \E c \in handed : CancelExecution(c)
    \/ ClearPendingTasks
    \/ ClearDeferredTasks

\* Runs of one priority level.
Levels ==
    \E p \in 1..config.priorities, sep \in {0, config.taskSeparation}, cb \in BOOLEAN :
        ExecuteTasksWithPriority(p, sep, cb)

\* The user's deferred tasks.
Deferred ==
    \/ DeferTask
    \/ \E d \in 1..Len(defs) : CancelDeferred(d)
    \/ \E t \in timers, throws \in BOOLEAN : FireDeferred(t, throws)

\* The host's event loop: microtasks and timers.
Host ==
    \/ \E l \in DOMAIN loops, pending \in Contention, throws \in BOOLEAN :
          Resume(l, pending, throws)
    \/ \E l \in DOMAIN loops : Finish(l)
    \/ \E t \in timers, pending \in Contention, throws \in BOOLEAN :
          FireSignal(t, pending, throws)

Next == Calls \/ Host

\* The host in a browser: contention, and yieldMainThread's timers.
Browser == \E t \in timers : FireYield(t)

\* The main specification: every call that raises nothing, in any order and
\* at any suspension point of the loops, on a host that is no browser.
Spec == Init /\ [][Next]_vars

\* Register, then execute: every task is registered before the first run, and
\* after that the caller only calls executeAll, on any host.
InitDrain ==
    InitWith({c \in Configs : c.priorities = MaxPriorities /\ ~c.autoRun})

RegisterFirst == runs = 0 /\ \E p \in 1..config.priorities : RegisterTask(p)

NextDrain ==
    \/ RegisterFirst
    \/ \E cb \in BOOLEAN : ExecuteAll(cb, config.taskSeparation)
    \/ Host
    \/ Browser

SpecDrain == InitDrain /\ [][NextDrain]_vars

\* The deferred-task registry: the caller's deferred tasks and the clears,
\* beside runs whose task separation puts their own timers in the registry.
InitDeferred ==
    InitWith({c \in Configs : c.priorities = 1 /\ ~c.autoRun /\ ~c.browser})

NextDeferred ==
    \/ Deferred
    \/ \E p \in 1..config.priorities : RegisterTask(p)
    \/ ExecuteAll(FALSE, config.taskSeparation)
    \/ ClearPendingTasks
    \/ ClearDeferredTasks
    \/ Host

SpecDeferred == InitDeferred /\ [][NextDeferred]_vars

\* The range guard: registerTask with every priority, also with autoRun.
InitGuard == InitWith({c \in Configs : ~c.browser})

NextGuard ==
    \/ \E p \in Priorities : RegisterTask(p)
    \/ ExecuteAll(FALSE, config.taskSeparation)
    \/ Host

SpecGuard == InitGuard /\ [][NextGuard]_vars

\* ------------------------------------------------------------------ claims
Level(n) == reg[n].level

Queued(n) == TaskItem(n) \in PQItems(tasks)

Invoked(n) == \E i \in DOMAIN invoked : invoked[i].task = n

Count(seq, x) == Cardinality({i \in DOMAIN seq : seq[i] = x})

\* The drain loops over the whole priority queue that have not left their loop.
LiveRuns ==
    {l \in DOMAIN loops : loops[l].queue.kind = "tasks" /\ loops[l].at # "exit"}

\* C1: when every task is registered before executeAll is called and nothing
\* but executeAll is called afterwards, a task of a higher priority level is
\* never invoked after a task of a lower one.
C1_PriorityOrdering ==
    \A i, j \in DOMAIN invoked :
        i < j => Level(invoked[i].task) <= Level(invoked[j].task)

\* Two tasks were invoked against their registration order, the later
\* registered one first because its level is higher.
C1_Witness ==
    \E i, j \in DOMAIN invoked :
        /\ i < j
        /\ Level(invoked[i].task) < Level(invoked[j].task)
        /\ invoked[i].task > invoked[j].task

\* C2: two tasks of one level are invoked in the order of their registration,
\* and the entries a bucket still holds are in the order of their
\* registration whatever was deleted or dequeued around them.
C2_FifoWithinLevel ==
    /\ \A i, j \in DOMAIN invoked :
          (i < j /\ Level(invoked[i].task) = Level(invoked[j].task))
              => invoked[i].task < invoked[j].task
    /\ \A k \in 1..Len(tasks.buckets) :
          \A i, j \in 1..Len(tasks.buckets[k].bucket) :
              i < j => tasks.buckets[k].bucket[i].item.n < tasks.buckets[k].bucket[j].item.n

\* Of three tasks of one level the first and the third were invoked, in that
\* order, and the second was taken out of the bucket between them.
C2_Witness ==
    \E a, b, c \in 1..Len(reg) :
        /\ a < b /\ b < c
        /\ Level(a) = Level(b) /\ Level(b) = Level(c)
        /\ Invoked(a) /\ Invoked(c) /\ ~Invoked(b) /\ ~Queued(b)

\* C3: at most one drain loop over the priority queue is live.
C3_AtMostOneActiveRun == Cardinality(LiveRuns) <= 1

\* No loop is live and no timer is pending: nothing is left to happen unless
\* the caller calls again.
Quiescent == loops = NoLoops /\ timers = {}

\* C4: with the tasks registered first and executeAll called any number of
\* times afterwards, at most one drain loop over the priority queue is live,
\* no task and no completion callback is invoked twice, and once a run was
\* started and nothing is left to happen every task and every callback has
\* been invoked exactly once.
C4_DuplicateCallsCollapsed ==
    /\ Cardinality(LiveRuns) <= 1
    /\ \A n \in 1..Len(reg) : Count([i \in DOMAIN invoked |-> invoked[i].task], n) <= 1
    /\ \A c \in 1..nextCb : Count(completed, c) <= 1
    /\ (Quiescent /\ runs > 0) =>
          /\ \A n \in 1..Len(reg) : Invoked(n)
          /\ \A c \in 1..nextCb : Count(completed, c) = 1

\* C5: the cancel function of a task that is still queued takes exactly that
\* task out (the length drops by one, every other entry stays where it is,
\* nothing is invoked), and a task that is neither queued nor invoked is
\* not invoked by any later step.
C5_CancelBeforeRun ==
    [][/\ \A n \in 1..Len(reg) :
              (Queued(n) /\ CancelTask(n)) =>
                  /\ PQLength(tasks') = PQLength(tasks) - 1
                  /\ \A k \in 1..Len(tasks.buckets) :
                        tasks'.buckets[k].bucket =
                            SelectSeq(tasks.buckets[k].bucket,
                                      LAMBDA e : e.item # TaskItem(n))
                  /\ invoked' = invoked
       /\ \A n \in 1..Len(reg) :
              (~Queued(n) /\ ~Invoked(n)) => ~Invoked(n)']_vars

\* The second of three tasks was cancelled while the first was still queued,
\* and the third, of the cancelled task's level, has been invoked since.
C5_Witness ==
    \E m, n, o \in 1..Len(reg) :
        /\ m < n /\ n < o
        /\ Queued(m) /\ ~Queued(n) /\ ~Invoked(n)
        /\ Invoked(o) /\ Level(n) = Level(o)

\* A step of loop l: its body after a resumption, or the code after its loop.
StepOf(l) ==
    \/ \E pending \in BOOLEAN, throws \in BOOLEAN : Resume(l, pending, throws)
    \/ \E t \in timers, pending \in BOOLEAN, throws \in BOOLEAN :
          t.ref = l /\ FireSignal(t, pending, throws)
    \/ Finish(l)

\* C6: a drain loop over the priority queue whose cancel function has been
\* invoked dequeues and invokes nothing in any of its later steps: the queue
\* stays as it is, and the loop leaves at its next check.
C6_CancelFreezesRemainder ==
    [][\A l \in DOMAIN loops :
          (loops[l].queue.kind = "tasks" /\ loops[l].cancelToken /\ StepOf(l)) =>
              /\ tasks' = tasks
              /\ invoked' = invoked
              /\ l \in DOMAIN loops' => loops'[l].at = "exit"]_vars

\* With task separation, a run was cancelled after its first task: the loop
\* has made its check and left, one task is invoked and two are queued.
C6_Witness ==
    \E l \in DOMAIN loops :
        /\ loops[l].queue.kind = "tasks" /\ loops[l].cancelToken
        /\ loops[l].taskSeparation = Separation /\ loops[l].at = "exit"
        /\ Len(invoked) = 1 /\ PQLength(tasks) = 2

\* C7: a deferred task whose cancel function has been invoked is not invoked
\* by any later step; and the cancel function of a deferred task that has
\* fired raises nothing, invokes nothing, touches no timer and takes nothing
\* but its own entry out of the registry.
C7_DeferredCancel ==
    [][\A d \in 1..Len(defs) :
          /\ defs[d].cancelled => Count(fired', d) = Count(fired, d)
          /\ (Count(fired, d) > 0 /\ CancelDeferred(d)) =>
                /\ fired' = fired
                /\ raised' = "none"
                /\ timers' = timers
                /\ deferredTasks'.bucket =
                      SelectSeq(deferredTasks.bucket,
                                LAMBDA e : e.ID # defs[d].ID)]_vars

\* One deferred task was cancelled before its timer fired, another after it
\* fired, and the registry still holds the timer of a run's task separation.
C7_Witness ==
    \E d, e \in 1..Len(defs) :
        /\ defs[d].cancelled /\ Count(fired, d) = 0
        /\ defs[e].cancelled /\ Count(fired, e) = 1
        /\ \E t \in timers : t.kind = "signal" /\ BucketHas(deferredTasks, t.ID)

\* C8: a deferred task that was neither cancelled nor cleared is invoked at
\* most once, not before its timer fires, and once it has fired the registry
\* holds its entry no more.
C8_DeferredFireThenRemove ==
    \A d \in 1..Len(defs) :
        (~defs[d].cancelled /\ ~defs[d].cleared) =>
            /\ Count(fired, d) <= 1
            /\ Pending(d) => Count(fired, d) = 0
            /\ ~Pending(d) => Count(fired, d) = 1
            /\ Count(fired, d) = 1 => ~BucketHas(deferredTasks, defs[d].ID)

\* C9: clearPendingTasks leaves the priority queue and the deferred registry
\* empty and invokes nothing; a deferred task that was pending at a clear is
\* not invoked by any later step, and neither is a task that left the queue
\* without being invoked.
C9_ClearWipesBothStores ==
    [][/\ ClearPendingTasks =>
              /\ PQLength(tasks') = 0
              /\ BucketLength(deferredTasks') = 0
              /\ invoked' = invoked
              /\ fired' = fired
       /\ \A d \in 1..Len(defs) :
              defs[d].cleared => Count(fired', d) = Count(fired, d)
       /\ \A n \in 1..Len(reg) :
              (~Queued(n) /\ ~Invoked(n)) => (~Queued(n) /\ ~Invoked(n))']_vars

\* Several tasks and every deferred task were pending at a clear: the tasks
\* are gone from the queue uninvoked, no deferred task has fired, and the
\* host has no timer left.
C9_Witness ==
    /\ Len(reg) >= 2 /\ Len(defs) = MaxDeferred
    /\ \A n \in 1..Len(reg) : ~Queued(n) /\ ~Invoked(n)
    /\ \A d \in 1..Len(defs) : defs[d].cleared /\ ~defs[d].cancelled
    /\ PQLength(tasks) = 0 /\ BucketLength(deferredTasks) = 0
    /\ fired = <<>> /\ timers = {}

\* C10: registerTask with a priority above the number of levels raises the
\* OutOfRange error and changes nothing: no bucket, no registry, no loop.
C10_RangeGuard ==
    [][\A p \in Priorities :
          (p > config.priorities /\ RegisterTask(p)) =>
              /\ raised' = "OutOfRange"
              /\ UNCHANGED <<tasks, subscriptions, internals, deferredTasks,
                             timers, loops, nextLoop, runs, reg, handed>>]_vars

\* With autoRun, the first call was out of range: it raised, and the
\* scheduler is as it was constructed, with no run started.
C10_Witness ==
    /\ raised = "OutOfRange" /\ config.autoRun
    /\ PQLength(tasks) = 0 /\ loops = NoLoops /\ runs = 0 /\ nextLoop = 0
    /\ BucketIsEmpty(internals) /\ BucketIsEmpty(subscriptions)

\* C11: with the tasks registered first and only executeAll called afterwards,
\* once a run was started and nothing is left to happen, the run has gone
\* through to its end whatever its tasks raised: no task is left queued, no
\* completion work is left in the subscriptions, and the marker of the run
\* is out of `internals`.
C11_TaskFailureIsolation ==
    (Quiescent /\ runs > 0) =>
        /\ PQIsEmpty(tasks)
        /\ BucketIsEmpty(subscriptions)
        /\ BucketIsEmpty(internals)

\* C12: whenever a loop over the whole priority queue invokes a task, no task
\* queued at that moment is of a level before the invoked task's level,
\* whenever the tasks were registered: the level is chosen at each dequeue.
C12_PriorityReevaluated ==
    [][\A n \in 1..Len(reg) :
          (/\ ~Invoked(n)
           /\ invoked' = Append(invoked, [task |-> n, queue |-> "tasks"])) =>
              \A m \in 1..Len(reg) : Queued(m) => Level(n) <= Level(m)]_vars

\* During the only run, which is live and not cancelled, task n was registered
\* at a level before the level of a and m after a had been invoked: n has
\* been invoked while m, registered before n, is still queued.
C12_Witness ==
    /\ runs = 1
    /\ \E l \in LiveRuns : ~loops[l].cancelToken
    /\ \E a, m, n \in 1..Len(reg) :
          /\ a < n /\ m < n
          /\ Level(a) = Level(m) /\ Level(n) < Level(m)
          /\ Queued(m)
          /\ \E i, j \in DOMAIN invoked :
                i < j /\ invoked[i].task = a /\ invoked[j].task = n

\* The host with tasks and callbacks that do not raise, outside a browser.
HostQuiet ==
    \/ \E l \in DOMAIN loops : Resume(l, FALSE, FALSE)
    \/ \E l \in DOMAIN loops : Finish(l)
    \/ \E t \in timers : FireSignal(t, FALSE, FALSE)

\* Cancel, then executeAll: the tasks are registered first, the run is started
\* by executeAll(), cancelled through a function the caller holds (the one
\* executeAll returned or the one getCancelFN gives), and executeAll(cb) is
\* called once while the cancelled loop has not yet left.
StartRun == runs = 0 /\ ExecuteAll(FALSE, config.taskSeparation)

CancelRunning == nextCb = 0 /\ \E c \in handed : CancelExecution(c)

ExecuteAgain ==
    /\ nextCb = 0
    /\ \E l \in DOMAIN loops : loops[l].cancelToken
    /\ ExecuteAll(TRUE, config.taskSeparation)

NextResume ==
    \/ RegisterFirst
    \/ StartRun
    \/ CancelRunning
    \/ ExecuteAgain
    \/ HostQuiet

SpecResume == Init /\ [][NextResume]_vars

\* C13: once executeAll has been called again after the cancel and nothing is
\* left to happen, every registered task has been invoked.
C13_ResumeAfterCancel ==
    (nextCb = 1 /\ Quiescent) => \A n \in 1..Len(reg) : Invoked(n)

\* Runs of single levels: the tasks are registered first, and then
\* executeTasksWithPriority is called with a completion callback for level 1,
\* then for level 2 and so on, at any time and with no full run ever started,
\* so that callback p is the one passed with priority p.
LevelRun ==
    \E p \in 1..config.priorities, sep \in {0, config.taskSeparation} :
        nextCb = p - 1 /\ ExecuteTasksWithPriority(p, sep, TRUE)

NextLevels ==
    \/ RegisterFirst
    \/ LevelRun
    \/ HostQuiet

SpecLevels == Init /\ [][NextLevels]_vars

\* C14: a step of the loop of executeTasksWithPriority(p) touches no bucket
\* but the one of level p - 1 and invokes no task of another level, and the
\* completion callback passed with priority p is only invoked when the bucket
\* of level p - 1 is empty.
C14_LevelScoped ==
    [][/\ \A l \in DOMAIN loops :
              (loops[l].queue.kind = "bucket" /\ StepOf(l)) =>
                  /\ \A k \in 1..Len(tasks.buckets) :
                        k # loops[l].queue.level + 1 =>
                            tasks'.buckets[k] = tasks.buckets[k]
                  /\ \A n \in 1..Len(reg) :
                        (~Invoked(n) /\ Invoked(n)') =>
                            Level(n) = loops[l].queue.level
       /\ \A c \in 1..nextCb :
              Count(completed', c) > Count(completed, c) =>
                  BucketIsEmpty(tasks.buckets[c])]_vars

\* A full run and calls of executeTasksWithPriority beside it: the tasks are
\* registered first, executeAll starts the run, and executeTasksWithPriority
\* is called, for any level, while the loop of that run is live; only these
\* calls pass completion callbacks.
StartFullRun == runs = 0 /\ ExecuteAll(FALSE, config.taskSeparation)

Muffled == LiveRuns # {} /\ Levels

NextMuffled ==
    \/ RegisterFirst
    \/ StartFullRun
    \/ Muffled
    \/ Host

SpecMuffled == Init /\ [][NextMuffled]_vars

\* C15: executeTasksWithPriority called while the loop of an executeAll run
\* is live starts no loop, touches no task and returns the cancel function
\* of that run; every task is invoked by a loop over the whole queue and at
\* most once, and once such a call was made with a callback and nothing is
\* left to happen, every task has been invoked.
C15_LevelRunMuffled ==
    /\ [](/\ \A i \in DOMAIN invoked : invoked[i].queue = "tasks"
          /\ \A n \in 1..Len(reg) :
                Count([i \in DOMAIN invoked |-> invoked[i].task], n) <= 1
          /\ (Quiescent /\ nextCb > 0) => \A n \in 1..Len(reg) : Invoked(n))
    /\ [][\A p \in 1..config.priorities, sep \in {0, config.taskSeparation},
             cb \in BOOLEAN :
             (LiveRuns # {} /\ ExecuteTasksWithPriority(p, sep, cb)) =>
                 /\ loops' = loops /\ nextLoop' = nextLoop
                 /\ tasks' = tasks /\ invoked' = invoked
                 /\ executeTasksWithPriority(S, p, sep, None).ret
                        \in {CancelFN(l) : l \in LiveRuns}]_vars

\* Runs of every kind and no cancel: registerTask at any time, with and
\* without autoRun, executeAll and executeTasksWithPriority at any time, and
\* tasks and callbacks that do not raise.
InitMarker == InitWith({c \in Configs : c.priorities = MaxPriorities /\ ~c.browser})

NextMarker ==
    \/ \E p \in 1..config.priorities : RegisterTask(p)
    \/ ExecuteAll(FALSE, config.taskSeparation)
    \/ \E p \in 1..config.priorities : ExecuteTasksWithPriority(p, 0, FALSE)
    \/ HostQuiet

SpecMarker == InitMarker /\ [][NextMarker]_vars

\* A loop over the whole priority queue is live and not cancelled.
Draining == \E l \in LiveRuns : ~loops[l].cancelToken

\* C16: getCancelFN returns nothing before any run and when nothing is left
\* to happen, and while a run of executeAll is draining it returns the cancel
\* function of a live run.
C16_CancelFNWhenActive ==
    /\ nextLoop = 0 => getCancelFN(S).ret = None
    /\ Quiescent => getCancelFN(S).ret = None
    /\ Draining => getCancelFN(S).ret \in {CancelFN(l) : l \in LiveRuns}

\* autoRun: registerTask at any time, the runs it starts, runs of single
\* levels beside them, and tasks that do not raise. Nothing is cancelled or
\* cleared and executeAll is only called by registerTask.
InitAuto ==
    InitWith({c \in Configs : c.priorities = MaxPriorities /\ c.autoRun /\ ~c.browser})

NextAuto ==
    \/ \E p \in 1..config.priorities : RegisterTask(p)
    \/ \E p \in 1..config.priorities : ExecuteTasksWithPriority(p, 0, FALSE)
    \/ HostQuiet

SpecAuto == InitAuto /\ [][NextAuto]_vars

\* C17: with autoRun, in every state, registerTask starts no loop when a loop
\* over the whole queue is live, and starts one when no loop is left at all.
C17_AutoRunStartsOneRun ==
    config.autoRun =>
        \A p \in 1..config.priorities :
            LET s == registerTask(S, TaskItem(Len(reg) + 1), p)
            IN  /\ LiveRuns # {} => s.nextLoop = nextLoop
                /\ loops = NoLoops => s.nextLoop = nextLoop + 1

\* autoRun alone: the caller only calls registerTask, at any time.
NextAutoOnly ==
    \/ \E p \in 1..config.priorities : RegisterTask(p)
    \/ HostQuiet

SpecAutoOnly == InitAuto /\ [][NextAutoOnly]_vars

\* C18: with autoRun, once no loop is live and no timer is pending, so that
\* nothing more happens without a further call, every task registerTask
\* accepted has been invoked.
C18_AutoRunLiveness ==
    (config.autoRun /\ Quiescent) => \A n \in 1..Len(reg) : Invoked(n)

\* C19: a step of a loop at which the host reports contention dequeues and
\* invokes nothing and leaves the loop waiting on yieldMainThread's timer; a
\* loop that waits there has that timer pending; and once a run has yielded
\* and nothing is left to happen, every task has been invoked.
C19_HostYield ==
    /\ [][\A l \in DOMAIN loops :
              (/\ Yields(l, TRUE)
               /\ \E throws \in BOOLEAN :
                     \/ Resume(l, TRUE, throws)
                     \/ \E t \in timers : t.ref = l /\ FireSignal(t, TRUE, throws)) =>
                  /\ tasks' = tasks
                  /\ invoked' = invoked
                  /\ loops'[l].at = "yield"
                  /\ Timer(NoHandle, "yield", l, 0) \in timers']_vars
    /\ [](/\ \A l \in DOMAIN loops :
                loops[l].at = "yield" => Timer(NoHandle, "yield", l, 0) \in timers
          /\ (Quiescent /\ yields > 0) => \A n \in 1..Len(reg) : Invoked(n))

\* Clears beside runs: registerTask, executeAll and the two clears at any
\* time, on a host whose timers fire and with tasks that do not raise.
NextClear ==
    \/ \E p \in 1..config.priorities : RegisterTask(p)
    \/ \E cb \in BOOLEAN : ExecuteAll(cb, config.taskSeparation)
    \/ ClearPendingTasks
    \/ ClearDeferredTasks
    \/ HostQuiet

SpecClear == Init /\ [][NextClear]_vars

\* No loop can take a step and no timer is pending: nothing more happens
\* unless the caller calls again.
Settled ==
    /\ timers = {}
    /\ \A l \in DOMAIN loops : loops[l].at = "timer"

\* C20: when nothing more can happen, every run has left: no loop is left
\* and no marker of a run is in `internals`.
C20_RunsReturnToIdle ==
    Settled => (loops = NoLoops /\ BucketIsEmpty(internals))

\* The run a completion callback came with: executeAll enqueues the callback
\* and, right behind it, the removeJob of the run it starts, whose marker in
\* `internals` holds the run's loop.
RunOf(c) ==
    {e.item : e \in {internals.bucket[k] : k \in 1..Len(internals.bucket)}}
      \cap {l \in DOMAIN loops :
               \E i \in 1..(Len(subscriptions.bucket) - 1), k \in 1..Len(internals.bucket) :
                   /\ subscriptions.bucket[i].item = OnComplete(c)
                   /\ subscriptions.bucket[i + 1].item = RemoveJob(internals.bucket[k].ID)
                   /\ internals.bucket[k].item = l}

\* C21: no step invokes a completion callback while the run it came with is
\* live over the priority queue, not cancelled, and has tasks left to dequeue.
C21_CompletionAfterDrain ==
    [][\A c \in 1..nextCb :
          Count(completed', c) > Count(completed, c) =>
              ~ \E l \in RunOf(c) \cap LiveRuns :
                    ~loops[l].cancelToken /\ ~PQIsEmpty(tasks)]_vars

\* C22: clearPendingTasks leaves the priority queue and the deferred-task
\* registry empty with none of their timers pending, and leaves the
\* subscription registry, the active-run marker and the configuration as
\* they were.
C22_ClearPendingFrame ==
    [][ClearPendingTasks =>
          /\ PQIsEmpty(tasks')
          /\ BucketIsEmpty(deferredTasks')
          /\ \A t \in timers' : t.h \notin BucketItems(deferredTasks)
          /\ subscriptions' = subscriptions
          /\ internals' = internals
          /\ config' = config]_vars

\* A clear took a queued task and a pending deferred task away, and the
\* subscription registry still holds the completion work of a run.
C22_Witness ==
    /\ PQIsEmpty(tasks) /\ BucketIsEmpty(deferredTasks)
    /\ \E n \in 1..Len(reg) : ~Invoked(n)
    /\ \E d \in 1..Len(defs) : defs[d].cleared
    /\ ~BucketIsEmpty(subscriptions)

\* C22 as stated: after clearPendingTasks the priority queue, the
\* deferred-task registry and the subscription registry are all empty, and
\* the configuration is as it was.
C22_ClearResetsThree ==
    [][ClearPendingTasks =>
          /\ PQIsEmpty(tasks')
          /\ BucketIsEmpty(deferredTasks')
          /\ BucketIsEmpty(subscriptions')
          /\ config' = config]_vars

\* Level runs with any priority: every level and one beyond either end,
\* called when idle and beside a full run.
NextRange ==
    \/ \E p \in 1..config.priorities : RegisterTask(p)
    \/ ExecuteAll(FALSE, config.taskSeparation)
    \/ \E p \in Priorities : ExecuteTasksWithPriority(p, 0, FALSE)
    \/ HostQuiet

SpecRange == Init /\ [][NextRange]_vars

\* C23: in every state, executeTasksWithPriority with a priority above the
\* number of levels raises OutOfRange to its caller.
C23_LevelRunRangeGuard ==
    \A p \in Priorities, sep \in {0, Separation}, cb \in {None, OnComplete(nextCb + 1)} :
        p - 1 > config.priorities - 1 =>
            executeTasksWithPriority(S, p, sep, cb).raised = "OutOfRange"

\* C24: registerTask with a priority whose level lies outside 0..N-1, above
\* or below, raises the OutOfRange error and leaves the queue as it was.
C24_RangeBothEnds ==
    [][\A p \in Priorities :
          ((p > config.priorities \/ p <= 0) /\ RegisterTask(p)) =>
              /\ raised' = "OutOfRange"
              /\ tasks' = tasks /\ reg' = reg]_vars

\* One run with a completion callback, cancelled through the function
\* executeAll returned while tasks are still queued.
StartRunWith == runs = 0 /\ ExecuteAll(TRUE, config.taskSeparation)

CancelEarly ==
    /\ ~PQIsEmpty(tasks)
    /\ \E c \in handed : c.fn = "cancelRun" /\ CancelExecution(c)

NextCancel == RegisterFirst \/ StartRunWith \/ CancelEarly \/ Host

SpecCancel == Init /\ [][NextCancel]_vars

\* The run was cancelled before it had drained the queue: its marker is gone
\* while tasks are left.
CancelledEarly == nextCb = 1 /\ BucketIsEmpty(internals) /\ ~PQIsEmpty(tasks)

\* C25: the completion callback of a run is not invoked while the run's loop
\* is there and never twice, and once a run cancelled before it drained the
\* queue has nothing left to do, its callback has been invoked exactly once
\* and the subscription registry is empty.
C25_CancelledRunCompletes ==
    /\ Count(completed, 1) <= 1
    /\ completed # <<>> => \A l \in DOMAIN loops : loops[l].queue.kind # "tasks"
    /\ (Quiescent /\ CancelledEarly) =>
          (Count(completed, 1) = 1 /\ BucketIsEmpty(subscriptions))

\* C26: with a task separation above 0, a step that invokes a task invokes
\* one task, and it is the firing of a timer that deferTask registered in
\* the deferred registry for the loop that dequeues; every loop over the
\* tasks waits on such a timer or has left.
C26_TaskSeparation ==
    /\ [](config.taskSeparation > 0 =>
             \A l \in LiveRuns :
                 /\ loops[l].taskSeparation = config.taskSeparation
                 /\ loops[l].at = "timer")
    /\ [][(config.taskSeparation > 0 /\ Len(invoked') > Len(invoked)) =>
             /\ Len(invoked') = Len(invoked) + 1
             /\ \E t \in timers \ timers' :
                   /\ t.kind = "signal"
                   /\ t.ref \in LiveRuns
                   /\ \E i \in 1..Len(deferredTasks.bucket) :
                         deferredTasks.bucket[i] = [ID |-> t.ID, item |-> t.h]
                   /\ ~BucketHas(deferredTasks', t.ID)
                   /\ \E throws \in BOOLEAN : FireSignal(t, FALSE, throws)]_vars

\* With task separation, beside the caller's own deferred tasks, a run has
\* invoked two tasks: two of its timers have fired.
C26_Witness ==
    /\ config.taskSeparation = Separation
    /\ Len(invoked) >= 2
    /\ Len(defs) > 0

\* Runs with completion callbacks, and the cancel function of a run called
\* when the run's loop has ended and a loop over the subscriptions is live.
CancelDraining ==
    /\ \E l \in DOMAIN loops : loops[l].queue.kind = "subscriptions"
    /\ \E c \in handed : c.loop \notin DOMAIN loops /\ CancelExecution(c)

NextCallbacks ==
    \/ RegisterFirst
    \/ ExecuteAll(TRUE, config.taskSeparation)
    \/ CancelDraining
    \/ Host

SpecCallbacks == Init /\ [][NextCallbacks]_vars

\* C27: completion callbacks are invoked in the order they were enqueued,
\* and the cancel function of a run whose loop has ended changes nothing of
\* the loops that drain the subscriptions: no token, no entry of the
\* registry, no timer, nothing invoked.
C27_CallbacksInOrderUncancelled ==
    /\ [](\A i, j \in DOMAIN completed : i < j => completed[i] < completed[j])
    /\ [][\A c \in handed :
             (c.loop \notin DOMAIN loops /\ CancelExecution(c)) =>
                 /\ loops' = loops
                 /\ subscriptions' = subscriptions
                 /\ timers' = timers
                 /\ completed' = completed /\ invoked' = invoked]_vars

\* The drain has invoked the first callback and the second is still
\* subscribed behind removeJob, and the run's cancel function has been
\* called: its marker is gone before removeJob ran.
C27_Witness ==
    /\ completed = <<1>>
    /\ OnComplete(2) \in BucketItems(subscriptions)
    /\ \E e \in BucketItems(subscriptions) : e.kind = "removeJob"
    /\ BucketIsEmpty(internals)
    /\ \E l \in DOMAIN loops : loops[l].queue.kind = "subscriptions" /\ ~loops[l].cancelToken

\* Registrations, cancels of single tasks and clears, around one run.
NextStale ==
    \/ \E p \in 1..config.priorities : RegisterTask(p)
    \/ \E n \in 1..Len(reg) : CancelTask(n)
    \/ ClearPendingTasks
    \/ StartRun
    \/ HostQuiet

SpecStale == Init /\ [][NextStale]_vars

\* C28: the cancel function of a task that is no longer queued (dequeued,
\* cancelled or cleared) deletes nothing: the priority queue it would leave
\* is the priority queue as it is, whatever has been registered since.
C28_StaleCancelHarmless ==
    \A n \in 1..Len(reg) :
        ~Queued(n) => PQDelete(tasks, reg[n].ID, reg[n].level) = tasks

\* One task was invoked, a later one was cancelled or cleared, and a task
\* registered after that sits at the level of the one that is gone.
C28_Witness ==
    \E a, b, m \in 1..Len(reg) :
        /\ Invoked(a)
        /\ ~Queued(b) /\ ~Invoked(b)
        /\ b < m /\ Queued(m) /\ Level(b) = Level(m)

\* Full runs and level runs side by side, with cancels and restarts.
NextBoth ==
    \/ \E p \in 1..config.priorities : RegisterTask(p)
    \/ ExecuteAll(FALSE, config.taskSeparation)
    \/ \E p \in 1..config.priorities, sep \in {0, config.taskSeparation} :
          ExecuteTasksWithPriority(p, sep, FALSE)
    \/ \E c \in handed : CancelExecution(c)
    \/ Host

SpecBoth == Init /\ [][NextBoth]_vars

\* C29: no registered task is invoked twice.
C29_AtMostOnce ==
    \A n \in 1..Len(reg) : Count([i \in DOMAIN invoked |-> invoked[i].task], n) <= 1

\* A loop over the whole queue and a loop over one level are live together,
\* neither cancelled, and each has invoked a task of that level.
C29_Witness ==
    \E l, k \in DOMAIN loops :
        /\ loops[l].queue.kind = "tasks" /\ loops[k].queue.kind = "bucket"
        /\ ~loops[l].cancelToken /\ ~loops[k].cancelToken
        /\ loops[l].at # "exit" /\ loops[k].at # "exit"
        /\ \E i, j \in DOMAIN invoked :
              /\ invoked[i].queue = "tasks" /\ invoked[j].queue = "bucket"
              /\ Level(invoked[i].task) = loops[k].queue.level

\* executeAll on a queue nothing was registered in; registrations and
\* further executeAll calls come after it.
EmptyRun == runs = 0 /\ \E cb \in BOOLEAN : ExecuteAll(cb, config.taskSeparation)

RegisterLater == runs > 0 /\ \E p \in 1..config.priorities : RegisterTask(p)

RunLater == runs > 0 /\ ExecuteAll(FALSE, config.taskSeparation)

NextEmpty == EmptyRun \/ RegisterLater \/ RunLater \/ Host

SpecEmpty == Init /\ [][NextEmpty]_vars

\* C30: a run started on an empty priority queue invokes no task, invokes
\* its completion callback at most once, and once nothing is left to happen
\* the callback has been invoked, the marker is out of `internals`, the
\* subscription registry is empty and the next executeAll starts a loop.
C30_EmptyRunCompletes ==
    /\ runs = 1 => invoked = <<>>
    /\ Count(completed, 1) <= 1
    /\ (Quiescent /\ runs = 1) =>
          /\ nextCb = 1 => completed = <<1>>
          /\ BucketIsEmpty(internals)
          /\ BucketIsEmpty(subscriptions)
          /\ executeAll(S, None, config.taskSeparation).nextLoop = nextLoop + 1

====
